---- MODULE Spec2Model ----
(***************************************************************************)
(* Kidney Stone Detection (src/app.py): a Streamlit script.  Every user    *)
(* interaction re-executes the script top to bottom in the session's       *)
(* script thread; the detector handle returned by load_model is memoized   *)
(* process-wide by st.cache_resource and shared by all sessions.           *)
(*                                                                         *)
(* Numbers: coordinates, confidences and class ids held in boxes.data are  *)
(* floats; the model keeps them as integers counting hundredths (0.91 is   *)
(* 91, 10.0 is 1000).  Texts are sequences of one-character strings.       *)
(***************************************************************************)
EXTENDS Integers, Sequences, FiniteSets, TLC

(* ---- bounds ---- *)
MaxBoxes == 2
MaxLoadCount == 2

(* ---- the environment the script runs in ---- *)
Sessions == {"s1", "s2"}
Thresholds == {40, 90}

None == "None"

(* messages assigned to model_error *)
NotFoundMsg == "Model file not found at: weights/best.pt"
ImportErrorMsg == "ultralytics package not installed"
LoadErrorMsg == "Error loading model"
LoadOutcomes == {"ok", "ImportError", "Exception"}

(* the names attribute of a loaded YOLO object: absent, or a mapping *)
NoMapping == [c \in {} |-> ""]
StoneNames == [c \in {0} |-> "stone"]
NameConfigs == {[has |-> FALSE, map |-> NoMapping], [has |-> TRUE, map |-> StoneNames]}

NoModel == [loaded |-> FALSE, has |-> FALSE, map |-> NoMapping]
YOLO(cfg) == [loaded |-> TRUE, has |-> cfg.has, map |-> cfg.map]

(* raw boxes a detector can emit: xyxy in hundredths of a pixel, conf in hundredths *)
Box(x1, y1, x2, y2, c, k) == [xyxy |-> <<x1, y1, x2, y2>>, conf |-> c, cls |-> k]
RawBoxes == {Box(1000, 1000, 5000, 5000, 91, 0),
             Box(6000, 6050, 12025, 13000, 42, 1)}
BoxSeqs == UNION {[1..n -> RawBoxes] : n \in 0..MaxBoxes}

(* ---- text ---- *)
DigitChars == <<"0", "1", "2", "3", "4", "5", "6", "7", "8", "9">>
DigitChar(d) == DigitChars[d + 1]
IsDigit(c) == \E d \in 0..9 : DigitChars[d + 1] = c
DigitValue(c) == CHOOSE d \in 0..9 : DigitChars[d + 1] = c

RECURSIVE IntStr(_)
IntStr(n) == IF n < 10 THEN <<DigitChar(n)>> ELSE IntStr(n \div 10) \o <<DigitChar(n % 10)>>

FloatStrOneDecimal(h) == IntStr(h \div 100) \o <<".", DigitChar((h % 100) \div 10)>>

(* str(float): the shortest decimal that reads back, always with a fraction *)
FloatStr(h) ==
    LET f == h % 100
    IN IntStr(h \div 100) \o <<".">> \o
       (IF f % 10 = 0 THEN <<DigitChar(f \div 10)>>
        ELSE <<DigitChar(f \div 10), DigitChar(f % 10)>>)

(* f"{conf_score:.2%}" *)
PercentStr(h) == IntStr(h) \o <<".", "0", "0", "%">>

RECURSIVE JoinStr(_, _)
JoinStr(parts, sep) ==
    IF parts = <<>> THEN <<>>
    ELSE IF Len(parts) = 1 THEN parts[1]
    ELSE parts[1] \o sep \o JoinStr(Tail(parts), sep)

(* str(list) *)
ListStr(parts) == <<"[">> \o JoinStr(parts, <<",", " ">>) \o <<"]">>

(* boxes.data.tolist(): one row [x1, y1, x2, y2, conf, cls] of floats per box *)
DataRow(b) == <<b.xyxy[1], b.xyxy[2], b.xyxy[3], b.xyxy[4], b.conf, b.cls * 100>>
DataToList(boxes) == [i \in 1..Len(boxes) |-> DataRow(boxes[i])]

(* str(res[0].boxes.data.tolist()) *)
ExportText(boxes) ==
    LET rows == DataToList(boxes)
    IN ListStr([i \in 1..Len(rows) |-> ListStr([j \in 1..Len(rows[i]) |-> FloatStr(rows[i][j])])])

(* ---- reading an exported text back (a literal parser for lists of lists of floats) ---- *)
RECURSIVE DigitsValue(_)
DigitsValue(ds) ==
    IF ds = <<>> THEN 0 ELSE DigitsValue(SubSeq(ds, 1, Len(ds) - 1)) * 10 + DigitValue(ds[Len(ds)])

ParseFloat(cs) ==
    LET dot == CHOOSE i \in 1..Len(cs) : cs[i] = "."
        ip == SubSeq(cs, 1, dot - 1)
        fp == SubSeq(cs, dot + 1, Len(cs))
    IN DigitsValue(ip) * 100 + (IF Len(fp) = 1 THEN DigitValue(fp[1]) * 10 ELSE DigitsValue(fp))

(* a literal is read token by token: maximal runs of digits and dots are the numbers, *)
(* a "]" that follows a number closes a row                                          *)
NumChar(c) == IsDigit(c) \/ c = "."
TokenStarts(t) == {i \in 1..Len(t) : NumChar(t[i]) /\ (i = 1 \/ ~NumChar(t[i - 1]))}
TokenEnd(t, i) ==
    CHOOSE j \in i..Len(t) :
        (\A k \in i..j : NumChar(t[k])) /\ (j = Len(t) \/ ~NumChar(t[j + 1]))
RowEnds(t) == {i \in 2..Len(t) : t[i] = "]" /\ NumChar(t[i - 1])}
RowOf(t, i) == Cardinality({e \in RowEnds(t) : e < i}) + 1
Nth(S, n) == CHOOSE x \in S : Cardinality({y \in S : y < x}) = n - 1

ParseExport(t) ==
    [r \in 1..Cardinality(RowEnds(t)) |->
        LET starts == {i \in TokenStarts(t) : RowOf(t, i) = r}
        IN [k \in 1..Cardinality(starts) |->
               ParseFloat(SubSeq(t, Nth(starts, k), TokenEnd(t, Nth(starts, k))))]]

(* ---- load_model and the module-level availability check ---- *)
EmptyCache == [filled |-> FALSE, model |-> NoModel, error |-> None]

(* the body of load_model: try YOLO(str(model_path)) / except ImportError / except Exception *)
LoadBody(outcome, cfg) ==
    IF outcome = "ok" THEN [model |-> YOLO(cfg), error |-> None]
    ELSE IF outcome = "ImportError" THEN [model |-> NoModel, error |-> ImportErrorMsg]
    ELSE [model |-> NoModel, error |-> LoadErrorMsg]

load_model_uncached(c, outcome, cfg) ==
    LET v == LoadBody(outcome, cfg)
    IN [model |-> v.model, error |-> v.error,
        cache |-> [filled |-> TRUE, model |-> v.model, error |-> v.error], ran |-> TRUE]

load_model_retry_errors(c, outcome, cfg) ==
    IF c.filled THEN [model |-> c.model, error |-> c.error, cache |-> c, ran |-> FALSE]
    ELSE LET v == LoadBody(outcome, cfg)
         IN [model |-> v.model, error |-> v.error,
             cache |-> IF v.model.loaded
                       THEN [filled |-> TRUE, model |-> v.model, error |-> v.error] ELSE c,
             ran |-> TRUE]

(* @st.cache_resource: the body runs only when no value is memoized; whatever it *)
(* returns, a model or an error, is memoized.  ran tells whether the body ran.   *)
load_model(c, outcome, cfg) ==
    IF c.filled THEN [model |-> c.model, error |-> c.error, cache |-> c, ran |-> FALSE]
    ELSE LET v == LoadBody(outcome, cfg)
         IN [model |-> v.model, error |-> v.error,
             cache |-> [filled |-> TRUE, model |-> v.model, error |-> v.error], ran |-> TRUE]

(* model = None; model_error = None; if not model_path.exists(): ... else: load_model(...) *)
ModelCheck(exists, c, outcome, cfg) ==
    IF ~exists THEN [model |-> NoModel, error |-> NotFoundMsg, cache |-> c, ran |-> FALSE]
    ELSE load_model(c, outcome, cfg)

(* ---- the detection branch ---- *)
Raised == "KeyError"
ClassLabel(id) == "Class " \o ToString(id)

class_name_subscript(m, id) ==
    IF m.has THEN (IF id \in DOMAIN m.map THEN m.map[id] ELSE Raised)
    ELSE ClassLabel(id)

(* model.names.get(cls_id, f"Class {cls_id}") if hasattr(model, 'names') else f"Class {cls_id}" *)
class_name(m, id) ==
    IF m.has THEN (IF id \in DOMAIN m.map THEN m.map[id] ELSE ClassLabel(id))
    ELSE ClassLabel(id)

(* the points of the handler where a library call can raise *)
Faults(boxes) ==
    {[at |-> "none", k |-> 0], [at |-> "plot", k |-> 0]}
    \cup {[at |-> "summary", k |-> k] : k \in 1..Len(boxes)}
    \cup (IF Len(boxes) > 0 THEN {[at |-> "export", k |-> 0]} ELSE {})

(* the try block spans the whole handler body, from Image.open to download_button *)
InTryOnlyPredict(point) == point \in {"open", "predict"}

InTry(point) == point \in {"open", "predict", "plot", "lookup", "summary", "export"}

(* the i-th pass of the loop body, i counted from 1 (the label shows i, enumerate's i+1) *)
Summary(m, i, box) ==
    [label |-> i,
     class_name |-> class_name(m, box.cls),
     confidence |-> PercentStr(box.conf),
     bbox |-> ListStr([j \in 1..4 |-> FloatStr(box.xyxy[j])])]

SummaryRaises(m, boxes, i, fault) ==
    (fault.at = "summary" /\ fault.k = i) \/ class_name(m, boxes[i].cls) = Raised

(* the first pass of the loop that raises, Len(boxes) + 1 when none does *)
RECURSIVE LoopStop(_, _, _, _)
LoopStop(m, boxes, i, fault) ==
    IF i > Len(boxes) THEN i
    ELSE IF SummaryRaises(m, boxes, i, fault) THEN i
    ELSE LoopStop(m, boxes, i + 1, fault)

RECURSIVE EnumerateDistinct(_)
EnumerateDistinct(boxes) ==
    IF boxes = <<>> THEN <<>>
    ELSE LET front == EnumerateDistinct(SubSeq(boxes, 1, Len(boxes) - 1))
             last == boxes[Len(boxes)]
         IN IF \E i \in 1..Len(front) : front[i] = last THEN front ELSE Append(front, last)

(* for i, box in enumerate(boxes): every box, in the order the detector emitted them *)
EnumerateBoxes(boxes) == [i \in 1..Len(boxes) |-> boxes[i]]

NumDetectionsConfident(boxes) == Cardinality({i \in 1..Len(boxes) : boxes[i].conf >= 50})

(* num_detections = len(boxes) *)
NumDetections(boxes) == Len(boxes)

HasDetectionsOrNone(n) == n >= 0

(* if num_detections > 0: *)
HasDetections(n) == n > 0

BlankUI ==
    [clicked |-> FALSE, msgs |-> <<>>, text |-> None, predicted |-> FALSE, raw |-> <<>>,
     image |-> FALSE, count |-> -1, summaries |-> <<>>, exported |-> FALSE, data |-> <<>>,
     failed |-> FALSE, point |-> "", uncaught |-> FALSE, retry |-> FALSE]

(* an exception raised at point with msgs already on the page: except Exception -> st.error *)
Except(u, point) ==
    IF InTry(point)
    THEN [u EXCEPT !.failed = TRUE, !.point = point, !.msgs = Append(u.msgs, "error_detection")]
    ELSE [u EXCEPT !.failed = TRUE, !.point = point, !.uncaught = TRUE]

(* everything after model.predict returned res: boxes, plot, st.image, statistics, summaries, export *)
Render(u0, m, res, fault) ==
    LET u1 == [u0 EXCEPT !.predicted = TRUE, !.raw = res]
        boxes == EnumerateBoxes(res)
        num_detections == NumDetections(res)
        stop == LoopStop(m, boxes, 1, fault)
        u2 == [u1 EXCEPT !.image = TRUE, !.count = num_detections]
        u3 == [u2 EXCEPT !.msgs = <<"success">>,
                         !.summaries = [i \in 1..(stop - 1) |-> Summary(m, i, boxes[i])]]
    IN IF fault.at = "plot" THEN Except(u1, "plot")
       ELSE IF HasDetections(num_detections)
            THEN IF stop <= Len(boxes)
                 THEN Except(u3, IF fault.at = "summary" /\ fault.k = stop THEN "summary" ELSE "lookup")
                 ELSE IF fault.at = "export" THEN Except(u3, "export")
                 ELSE [u3 EXCEPT !.exported = TRUE, !.data = ExportText(res)]
            ELSE [u2 EXCEPT !.msgs = <<"warning", "info_threshold">>]

(* ---- state ---- *)
VARIABLES
    fileExists,   \* weights/best.pt is on disk
    cache,        \* the value st.cache_resource memoizes for load_model
    loadCount,    \* how often the body of load_model has run
    startup,      \* model_error of the first script run of the process ("pending" before)
    model,        \* per session: the module-level variable model of its latest run
    model_error,  \* per session: the module-level variable model_error of its latest run
    source_img,   \* per session: the uploader holds a file
    inflight,     \* per session: model.predict calls that have not returned
    req,          \* per session: the confidence of the call in flight
    failedBefore, \* per session: its latest detection request ended in an exception
    ui            \* per session: what the detection column of its latest run shows

vars == <<fileExists, cache, loadCount, startup, model, model_error, source_img,
          inflight, req, failedBefore, ui>>

Init ==
    /\ fileExists \in BOOLEAN
    /\ cache = EmptyCache
    /\ loadCount = 0
    /\ startup = "pending"
    /\ model = [s \in Sessions |-> NoModel]
    /\ model_error = [s \in Sessions |-> None]
    /\ source_img = [s \in Sessions |-> FALSE]
    /\ inflight = [s \in Sessions |-> 0]
    /\ req = [s \in Sessions |-> 0]
    /\ failedBefore = [s \in Sessions |-> FALSE]
    /\ ui = [s \in Sessions |-> BlankUI]

(* the weights file is installed or removed between script runs *)
WeightsChange ==
    /\ fileExists' = ~fileExists
    /\ UNCHANGED <<cache, loadCount, startup, model, model_error, source_img,
                   inflight, req, failedBefore, ui>>

CanStartRunAlways(n) == TRUE

(* a session runs one script at a time: the click handler calls model.predict *)
(* synchronously inside the run, so the run ends only when predict has returned *)
CanStartRun(n) == n = 0

(* what the load can do, chosen when the body of load_model is about to run *)
LoadInputs ==
    IF fileExists /\ ~cache.filled THEN LoadOutcomes \X NameConfigs
    ELSE {<<"ok", [has |-> FALSE, map |-> NoMapping]>>}

(* the module-level part of a run (lines 111-124), common to every run *)
RunModelCheck(s, outcome, cfg) ==
    LET r == ModelCheck(fileExists, cache, outcome, cfg)
    IN /\ cache' = r.cache
       /\ loadCount' = IF r.ran /\ loadCount < MaxLoadCount THEN loadCount + 1 ELSE loadCount
       /\ model' = [model EXCEPT ![s] = r.model]
       /\ model_error' = [model_error EXCEPT ![s] = r.error]
       /\ startup' = IF startup = "pending" THEN r.error ELSE startup

(* a rerun caused by the uploader or the slider: the button reads False *)
ScriptRun(s) ==
    /\ CanStartRun(inflight[s])
    /\ \E li \in LoadInputs, up \in BOOLEAN :
        /\ RunModelCheck(s, li[1], li[2])
        /\ source_img' = [source_img EXCEPT ![s] = up]
        /\ ui' = [ui EXCEPT ![s] = [BlankUI EXCEPT !.msgs =
                       IF up THEN <<"info_click">> ELSE <<"placeholder">>]]
    /\ UNCHANGED <<fileExists, inflight, req, failedBefore>>

(* a rerun caused by a click on the button the previous run rendered *)
DetectClick(s) ==
    /\ CanStartRun(inflight[s])
    /\ source_img[s]
    /\ \E li \in LoadInputs, conf \in Thresholds, openFails \in BOOLEAN :
        LET r == ModelCheck(fileExists, cache, li[1], li[2])
            u == [BlankUI EXCEPT !.clicked = TRUE, !.retry = failedBefore[s]]
        IN /\ RunModelCheck(s, li[1], li[2])
           /\ IF ~r.model.loaded
              THEN /\ openFails = FALSE
                   /\ ui' = [ui EXCEPT ![s] = [u EXCEPT !.msgs = <<"error_model", "info_install">>,
                                                        !.text = r.error]]
                   /\ UNCHANGED <<inflight, req, failedBefore>>
              ELSE IF openFails
              THEN /\ ui' = [ui EXCEPT ![s] = Except(u, "open")]
                   /\ failedBefore' = [failedBefore EXCEPT ![s] = TRUE]
                   /\ UNCHANGED <<inflight, req>>
              ELSE /\ ui' = [ui EXCEPT ![s] = [u EXCEPT !.msgs = <<"spinner">>]]
                   /\ inflight' = [inflight EXCEPT ![s] = inflight[s] + 1]
                   /\ req' = [req EXCEPT ![s] = conf]
                   /\ UNCHANGED failedBefore
    /\ UNCHANGED <<fileExists, source_img>>

(* model.predict(uploaded_image, conf=confidence) raises *)
PredictRaises(s) ==
    /\ inflight[s] > 0
    /\ inflight' = [inflight EXCEPT ![s] = inflight[s] - 1]
    /\ req' = [req EXCEPT ![s] = 0]
    /\ ui' = [ui EXCEPT ![s] = Except([ui[s] EXCEPT !.msgs = <<>>], "predict")]
    /\ failedBefore' = [failedBefore EXCEPT ![s] = TRUE]
    /\ UNCHANGED <<fileExists, cache, loadCount, startup, model, model_error, source_img>>

(* what the detector returns at a threshold: boxes it scored at or above it *)
Detections(conf) == {b \in BoxSeqs : \A i \in 1..Len(b) : b[i].conf >= conf}

(* model.predict returns and the rest of the handler runs *)
PredictReturns(s) ==
    /\ inflight[s] > 0
    /\ \E res \in Detections(req[s]) : \E fault \in Faults(res) :
        LET u == Render([ui[s] EXCEPT !.msgs = <<>>], model[s], res, fault)
        IN /\ ui' = [ui EXCEPT ![s] = u]
           /\ failedBefore' = [failedBefore EXCEPT ![s] = u.failed]
    /\ inflight' = [inflight EXCEPT ![s] = inflight[s] - 1]
    /\ req' = [req EXCEPT ![s] = 0]
    /\ UNCHANGED <<fileExists, cache, loadCount, startup, model, model_error, source_img>>

Next ==
    \/ WeightsChange
    \/ \E s \in Sessions : ScriptRun(s)
    \/ \E s \in Sessions : DetectClick(s)
    \/ \E s \in Sessions : PredictRaises(s)
    \/ \E s \in Sessions : PredictReturns(s)

Spec == Init /\ [][Next]_vars

(* ---- properties ---- *)
ScenarioB == <<Box(1000, 1000, 5000, 5000, 91, 0), Box(6000, 6050, 12025, 13000, 42, 1)>>

(* a detection request of session s has run to its end *)
Ended(s) == ui[s].clicked /\ inflight[s] = 0

(* a detection request of session s got its boxes and raised nothing *)
Succeeded(s) == Ended(s) /\ ui[s].predicted /\ ~ui[s].failed

(* the four outcomes, told apart by the kind of message on the page *)
Found(s) == \E i \in 1..Len(ui[s].msgs) : ui[s].msgs[i] = "success"
NoDetections(s) == \E i \in 1..Len(ui[s].msgs) : ui[s].msgs[i] = "warning"
InferenceFailure(s) == \E i \in 1..Len(ui[s].msgs) : ui[s].msgs[i] = "error_detection"
ModelUnavailable(s) == \E i \in 1..Len(ui[s].msgs) : ui[s].msgs[i] = "error_model"

(* C1: for every detection request that got its boxes and raised nothing, the count *)
(* reported, the number of summaries rendered and, where boxes were found, the      *)
(* number of records in the export all equal the number of raw boxes returned.      *)
C1_CountsEqualRaw ==
    \A s \in Sessions : Succeeded(s) =>
        /\ ui[s].count = Len(ui[s].raw)
        /\ Len(ui[s].summaries) = Len(ui[s].raw)
        /\ (Len(ui[s].raw) > 0 =>
               ui[s].exported /\ Len(ParseExport(ui[s].data)) = Len(ui[s].raw))

C1_Witness ==
    \E s \in Sessions : Succeeded(s) /\ Len(ui[s].raw) = 2 /\ ui[s].raw[2].conf < 50 /\ ui[s].exported

C3_LoadAtMostOnce ==
    /\ loadCount = (IF cache.filled THEN 1 ELSE 0)
    /\ \A s \in Sessions :
          (model[s].loaded \/ model_error[s] \in {ImportErrorMsg, LoadErrorMsg}) =>
              /\ cache.filled
              /\ model[s] = cache.model
              /\ model_error[s] = cache.error

C3_Witness ==
    /\ loadCount = 1
    /\ \E s, t \in Sessions : s # t /\ model[s].loaded /\ model[t].loaded /\ ui[t].clicked

(* C4: an exception raised while handling a detection request ends that request in *)
(* an 'Error during detection' message; it does not leave the request, and the     *)
(* loaded handle and model_error stay as they were.                                *)
C4_ExceptionCaught ==
    \A s \in Sessions : ui[s].failed =>
        /\ ~ui[s].uncaught
        /\ ui[s].msgs[Len(ui[s].msgs)] = "error_detection"
        /\ model[s].loaded /\ model_error[s] = None
        /\ cache.filled /\ cache.model = model[s] /\ cache.error = None

(* a request that raised, and in another session a request that succeeded after one that raised *)
C4_Witness ==
    \E s, t \in Sessions :
        /\ ui[s].failed /\ ui[s].point = "summary"
        /\ ui[t].retry /\ Succeeded(t) /\ Found(t)

(* C5: a class id absent from the name mapping, or any class id of a detector without *)
(* a name mapping, is shown as "Class {id}" and the lookup raises nothing; a class id *)
(* present in the mapping is shown under its mapped name.                             *)
C5_ClassNameFallback ==
    \A s \in Sessions :
        /\ ui[s].point # "lookup"
        /\ \A i \in 1..Len(ui[s].summaries) :
              LET id == ui[s].raw[i].cls
                  shown == ui[s].summaries[i].class_name
              IN IF model[s].has /\ id \in DOMAIN model[s].map
                 THEN shown = model[s].map[id]
                 ELSE shown = (IF id = 0 THEN "Class 0" ELSE "Class 1")

C5_Witness ==
    \E s \in Sessions :
        /\ Succeeded(s) /\ model[s].has /\ Len(ui[s].summaries) = 2
        /\ ui[s].summaries[1].class_name = "stone"
        /\ ui[s].summaries[2].class_name = "Class 1"

(* C6 as stated: a request with zero detections ends in 'no detections' with count 0, *)
(* reported as information, and its export is the empty list [].                      *)
C6_EmptyExport ==
    \A s \in Sessions : (Succeeded(s) /\ ui[s].raw = <<>>) =>
        /\ ui[s].count = 0
        /\ NoDetections(s) /\ ~InferenceFailure(s) /\ ~ModelUnavailable(s)
        /\ ui[s].exported /\ ui[s].data = <<"[", "]">>

(* C6 amended: a request with zero detections ends in 'no detections' with count 0, *)
(* reported as a warning and an information and not as an error, and no export is   *)
(* offered for it.                                                                  *)
C6_NoDetectionsNoExport ==
    \A s \in Sessions : (Succeeded(s) /\ ui[s].raw = <<>>) =>
        /\ ui[s].count = 0
        /\ ui[s].msgs = <<"warning", "info_threshold">>
        /\ ui[s].summaries = <<>>
        /\ ~ui[s].exported

C6_Witness == \E s \in Sessions : Succeeded(s) /\ ui[s].raw = <<>> /\ ui[s].count = 0

(* C7: the exported text holds one [x_min, y_min, x_max, y_max, confidence, class_id] *)
(* record per detection, and reading it back gives the values of the detections in    *)
(* the same order.                                                                    *)
C7_ExportRoundTrip ==
    \A s \in Sessions : ui[s].exported =>
        LET back == ParseExport(ui[s].data)
        IN /\ Len(back) = Len(ui[s].raw)
           /\ \A i \in 1..Len(back) :
                 back[i] = ui[s].raw[i].xyxy \o <<ui[s].raw[i].conf, 100 * ui[s].raw[i].cls>>

C7_Witness == \E s \in Sessions : ui[s].exported /\ ui[s].raw = <<ScenarioB[2], ScenarioB[1]>>

(* C8: the summary labelled 'Detection i' carries the class, confidence and bounding *)
(* box of the i-th raw box, and there is one summary per raw box: no re-sorting, no  *)
(* deduplication.                                                                    *)
C8_EmissionOrder ==
    \A s \in Sessions :
        /\ Succeeded(s) => Len(ui[s].summaries) = Len(ui[s].raw)
        /\ \A i \in 1..Len(ui[s].summaries) :
              LET sm == ui[s].summaries[i]
                  b == ui[s].raw[i]
              IN /\ sm.label = i
                 /\ ParseExport(sm.bbox) = <<b.xyxy>>
                 /\ ParseFloat(SubSeq(sm.confidence, 1, Len(sm.confidence) - 1)) = 100 * b.conf
                 /\ sm.class_name \in {"stone", "Class 0", "Class 1"}
                 /\ (sm.class_name = "stone") = (model[s].has /\ b.cls = 0)
                 /\ (sm.class_name = "Class 1") = (b.cls = 1)

C8_Witness ==
    \E s \in Sessions :
        /\ Succeeded(s) /\ ui[s].raw = ScenarioB /\ model[s].map = StoneNames
        /\ Len(ui[s].summaries) = 2

(* C9: every detection request ends in exactly one of the four outcomes. *)
C9_ExactlyOneOutcome ==
    \A s \in Sessions : Ended(s) =>
        Cardinality({k \in {"found", "none", "failure", "unavailable"} :
            \/ k = "found" /\ Found(s)
            \/ k = "none" /\ NoDetections(s)
            \/ k = "failure" /\ InferenceFailure(s)
            \/ k = "unavailable" /\ ModelUnavailable(s)}) = 1

(* C10 as stated: at most one model.predict call is in flight in the whole process. *)
C10_NoOverlap == Cardinality({s \in Sessions : inflight[s] > 0}) <= 1

(* C10 amended: a session has at most one model.predict call in flight and starts no *)
(* script run until it has returned; calls of different sessions can overlap.        *)
C10_NoOverlapPerSession ==
    [][\A s \in Sessions :
          /\ inflight[s] <= 1
          /\ inflight[s] > 0 => (inflight'[s] <= inflight[s] /\ model'[s] = model[s])]_vars

C10_Witness == \E s, t \in Sessions : s # t /\ inflight[s] = 1 /\ inflight[t] = 1

====
